---- MODULE Spec2Model ----
(***************************************************************************)
(* A model of the reatchify/sdk generation pipeline: the configuration     *)
(* resolver (mergeConfigWithDefaults), the schema validators, the          *)
(* per-artifact generators and the orchestrator generateCode.              *)
(*                                                                         *)
(* JavaScript objects are functions from key strings to values; a key that *)
(* is absent from the object is absent from the function's domain.  A path *)
(* on disk is a sequence of strings (its segments below the working        *)
(* directory), a generated file name is the sequence of the parts of its   *)
(* base name (the ".ts" extension is left out).                            *)
(***************************************************************************)
EXTENDS Integers, Sequences, FiniteSets, TLC

VARIABLES
    config,      \* the user configuration handed to the program
    nodeEnv,     \* process.env.NODE_ENV ("" when unset)
    rpc,         \* resolver: "input" before, "resolved" after mergeConfigWithDefaults
    resolved,    \* the value mergeConfigWithDefaults returned (Empty before)
    schema,      \* the schema fetchSchema returned (NoSchema before)
    fs,          \* the filesystem below the working directory: [dirs, files]
    fs0,         \* the filesystem as it was when the run started
    pc,          \* generateCode: the step it is at, "done" or "rejected" at the end
    outputDir,   \* generateCode's local outputDir (NoPath while it is "")
    error,       \* the error generateCode threw ("" when none)
    trace,       \* what the run did so far: hooks, collaborators, generators, fs calls
    console,     \* the console.warn calls of the generators so far
    out,         \* the call of a function on its own and what it returned
    plugins,     \* generated SDK: the plugins of the client's PluginRegistry, in order
    store,       \* generated SDK: the state of an endpoint store: [data, loading, error]
    call         \* generated SDK: the call in progress and the step it is at

vars == <<config, nodeEnv, rpc, resolved, schema, fs, fs0, pc, outputDir, error, trace,
          console, out, plugins, store, call>>

pipelineVars == <<schema, fs, fs0, pc, outputDir, error, trace>>

(***************************************************************************)
(* Bounds of the model.                                                    *)
(***************************************************************************)
\* how many fields of the user configuration are set at the same time
MaxFields == 2

\* how many options of a generation run differ from the plain configuration
MaxOptions == 2

\* how many endpoints a schema handed to a generator on its own has
MaxEndpoints == 2

\* how many plugins are registered on a client
MaxPlugins == 2

\* how many types a schema declares when the types generator is called on its own
MaxTypes == 2

\* how many fetch calls are made on one store
MaxFetches == 3

(***************************************************************************)
(* JavaScript object helpers.                                              *)
(***************************************************************************)
Empty == [k \in {} |-> ""]

Has(o, k) == k \in DOMAIN o

\* o.k || {} for an object-valued key, and the operand of "...o.k"
Sub(o, k) == IF Has(o, k) THEN o[k] ELSE Empty

\* { ...a, ...b }: the keys of b win
Spread(a, b) == b @@ a

\* a string-valued key is truthy when present and not ""
Truthy(o, k) == Has(o, k) /\ o[k] # ""

(***************************************************************************)
(* INTERNAL_API_CONFIG                                                     *)
(***************************************************************************)
InternalTimeout == 30000

InternalDefaultVersion == "v2"

InternalHeaders ==
    ("Content-Type" :> "application/json") @@ ("X-Client" :> "reatchify-sdk")

(***************************************************************************)
(* mergeConfigWithDefaults: the defaults of each nested group.             *)
(***************************************************************************)
MergedGroups ==
    {"folderStructure", "client", "api", "response", "plugins", "versioning",
     "errorHandling", "generation"}

GroupDefaults(g) ==
    CASE g = "folderStructure" ->
           [types |-> "types", api |-> "api", client |-> "client", stores |-> "stores"]
      [] g = "client" ->
           [enabled |-> TRUE, className |-> "ReatchifyClient",
            exportAsDefault |-> FALSE, includeUtils |-> TRUE]
      [] g = "api" ->
           [enabled |-> TRUE, namespaceName |-> "api",
            groupByResource |-> TRUE, includeHttpClient |-> TRUE]
      [] g = "response" ->
           [pattern |-> "result", includeErrorClasses |-> TRUE]
      [] g = "plugins" ->
           [enabled |-> TRUE, registryClassName |-> "PluginRegistry",
            includeDefaultPlugins |-> FALSE]
      [] g = "versioning" ->
           [enabled |-> TRUE, headerName |-> "X-API-Version",
            versionFromPackage |-> FALSE]
      [] g = "errorHandling" ->
           [enabled |-> TRUE, includeNetworkErrors |-> TRUE,
            includeValidationErrors |-> TRUE]
      [] g = "generation" ->
           [includeComments |-> TRUE, includeJSDoc |-> TRUE, minify |-> FALSE,
            sourceMap |-> FALSE, declarationFiles |-> TRUE]

\* a resolver that takes the user's group whole instead of merging it
MergeGroup_Wholesale(userConfig, g) ==
    IF Has(userConfig, g) THEN userConfig[g] ELSE GroupDefaults(g)

\* one nested group of the result: { ...defaults, ...userConfig.g }
MergeGroup(userConfig, g) == Spread(GroupDefaults(g), Sub(userConfig, g))

\* http: { timeout, headers: { ...internal, ...user headers }, ...userConfig.http }
MergeHttp(userConfig) ==
    Spread([timeout |-> InternalTimeout,
            headers |-> Spread(InternalHeaders, Sub(Sub(userConfig, "http"), "headers"))],
           Sub(userConfig, "http"))

\* apiVersion: envConfig.apiVersion || userConfig.apiVersion || defaultVersion
ApiVersionChain(userConfig, envConfig) ==
    IF Truthy(envConfig, "apiVersion") THEN envConfig["apiVersion"]
    ELSE IF Truthy(userConfig, "apiVersion") THEN userConfig["apiVersion"]
    ELSE InternalDefaultVersion

\* the scalars written before "...userConfig"
ScalarDefaults(userConfig, envConfig, defaultOutputDir) ==
    [language |-> "ts", stateManagement |-> "zustand", httpClient |-> "axios",
     outputDir |-> defaultOutputDir, projectType |-> "auto",
     apiVersion |-> ApiVersionChain(userConfig, envConfig)]

\* the keys written after "...userConfig"
NestedGroups(userConfig) ==
    [g \in MergedGroups |-> MergeGroup(userConfig, g)]
    @@ ("http" :> MergeHttp(userConfig))
    @@ ("advanced" :> Sub(userConfig, "advanced"))

mergeConfigWithDefaults(userConfig, env, defaultOutputDir) ==
    LET environment == IF env = "" THEN "prod" ELSE env
        envConfig == Sub(Sub(userConfig, "environments"), environment)
    IN  Spread(Spread(ScalarDefaults(userConfig, envConfig, defaultOutputDir),
                      userConfig),
               NestedGroups(userConfig))

(***************************************************************************)
(* The user configurations the resolver is applied to: every configuration *)
(* that sets at most MaxFields of the fields below, each to one of the     *)
(* listed values.                                                          *)
(***************************************************************************)
Fields ==
    {"apiKey", "language", "stateManagement", "httpClient", "outputDir",
     "projectType", "apiVersion", "naming", "auth", "folderStructure", "client",
     "api", "response", "plugins", "versioning", "errorHandling", "http",
     "generation", "advanced", "environments"}

FieldValues(f) ==
    CASE f = "apiKey" -> {"key"}
      [] f = "language" -> {"js"}
      [] f = "stateManagement" -> {"redux", "none"}
      [] f = "httpClient" -> {"fetch"}
      [] f = "outputDir" -> {"out"}
      [] f = "projectType" -> {"next"}
      [] f = "apiVersion" -> {"v1"}
      [] f = "naming" -> {[storePrefix |-> "with"]}
      [] f = "auth" -> {[enabled |-> FALSE], Empty}
      [] f = "folderStructure" ->
           {[types |-> "custom-types"], [api |-> "endpoints", stores |-> "state"]}
      [] f = "client" ->
           {[className |-> "CustomClient"],
            [className |-> "CustomClient", includeUtils |-> FALSE],
            [enabled |-> FALSE]}
      [] f = "api" -> {[groupByResource |-> FALSE], [enabled |-> FALSE]}
      [] f = "response" -> {[pattern |-> "promise"], [customErrorTypes |-> <<"Quota">>]}
      [] f = "plugins" -> {[enabled |-> FALSE]}
      [] f = "versioning" -> {[headerName |-> "X-Version"]}
      [] f = "errorHandling" -> {[includeNetworkErrors |-> FALSE]}
      [] f = "http" ->
           {[headers |-> ("X-Custom" :> "a")],
            [headers |-> ("X-Client" :> "mine")],
            [timeout |-> 5000],
            [retry |-> [enabled |-> TRUE]]}
      [] f = "generation" ->
           {[minify |-> TRUE], [includeComments |-> FALSE], [overwrite |-> FALSE]}
      [] f = "advanced" -> {[customTemplates |-> Empty]}
      [] f = "environments" ->
           {[prod |-> [apiVersion |-> "v3"]],
            [prod |-> [httpClient |-> "fetch"]],
            [prod |-> [outputDir |-> "envout"]],
            [dev |-> [apiVersion |-> "v3", httpClient |-> "fetch"]]}

RECURSIVE ConfigsOver(_)
ConfigsOver(D) ==
    IF D = {} THEN {Empty}
    ELSE LET f == CHOOSE x \in D : TRUE
         IN  {(f :> v) @@ c : v \in FieldValues(f), c \in ConfigsOver(D \ {f})}

RECURSIVE SubsetsUpTo(_, _)
SubsetsUpTo(S, n) ==
    IF n = 0 \/ S = {} THEN {{}}
    ELSE LET x == CHOOSE y \in S : TRUE
         IN  SubsetsUpTo(S \ {x}, n)
             \cup {D \cup {x} : D \in SubsetsUpTo(S \ {x}, n - 1)}

UserConfigs == UNION {ConfigsOver(D) : D \in SubsetsUpTo(Fields, MaxFields)}

NodeEnvs == {"", "dev"}

(***************************************************************************)
(* Schemas.  A path is the sequence path.split("/") yields: "/users/{id}"  *)
(* is <<"", "users", "{id}">>, "users" (no leading slash) is <<"users">>.  *)
(* types is the ordered list of the declared types.                        *)
(***************************************************************************)
NoSchema == [endpoints |-> <<>>, types |-> <<>>]

\* the embedded fallback's first two endpoints (Scenario A)
UsersSchema ==
    [endpoints |->
        << [path |-> <<"", "users">>, method |-> "GET",
            response |-> [type |-> "User[]"]],
           [path |-> <<"", "users", "{id}">>, method |-> "GET",
            parameters |-> << [name |-> "id", type |-> "string", required |-> TRUE] >>,
            response |-> [type |-> "User"]] >>,
     types |-> << [name |-> "User", fields |-> <<"id", "name", "email">>] >>]

ShopSchema ==
    [endpoints |->
        << [path |-> <<"", "users">>, method |-> "GET",
            response |-> [type |-> "User[]"]],
           [path |-> <<"", "posts">>, method |-> "post",
            parameters |-> << [name |-> "title", type |-> "string", required |-> TRUE] >>,
            response |-> [type |-> "Post"]] >>,
     types |-> << [name |-> "User", fields |-> <<"id", "name">>],
                  [name |-> "Post", fields |-> <<"id", "title">>] >>]

\* a schema with one violation of each kind
BadSchema ==
    [endpoints |->
        << [path |-> <<"users">>, method |-> "FETCH"],
           [path |-> <<"", "users", "{id}">>, method |-> "GET",
            parameters |-> << [name |-> "id", type |-> "string", required |-> TRUE],
                              [name |-> "id", type |-> "Filter", required |-> FALSE] >>,
            response |-> [type |-> "Ghost"]] >>,
     types |-> << [name |-> "User", fields |-> <<"id">>] >>]

Schemas == {NoSchema, UsersSchema, ShopSchema, BadSchema}

\* s.toUpperCase() on the method strings of the schemas
ToUpperCase(s) ==
    CASE s = "get" -> "GET"
      [] s = "post" -> "POST"
      [] s = "put" -> "PUT"
      [] s = "patch" -> "PATCH"
      [] s = "delete" -> "DELETE"
      [] OTHER -> s

\* s.toLowerCase() on the type names of the schemas
ToLowerCase(s) ==
    CASE s = "User" -> "user"
      [] s = "Post" -> "post"
      [] s = "Index" -> "index"
      [] s = "USER" -> "user"
      [] OTHER -> s

\* s.charAt(0).toUpperCase() + s.slice(1)
Capitalize(s) ==
    CASE s = "users" -> "Users"
      [] s = "posts" -> "Posts"
      [] s = "operation" -> "Operation"
      [] s = "general" -> "General"
      [] s = "index" -> "Index"
      [] s = "get" -> "Get"
      [] s = "create" -> "Create"
      [] s = "update" -> "Update"
      [] s = "delete" -> "Delete"
      [] OTHER -> s

\* s.charAt(0).toLowerCase() + s.slice(1)
LowerFirst(s) ==
    CASE s = "Users" -> "users"
      [] OTHER -> s

\* p.startsWith("{")
IsPathParam(seg) == seg \in {"{id}", "{userId}"}

\* name.toLowerCase().includes("id")
ContainsId(name) == name \in {"id", "userId", "ID", "Id", "postID", "valid"}

\* t.replace(/\[\]$/, "")
StripArray(t) ==
    CASE t = "User[]" -> "User"
      [] t = "Post[]" -> "Post"
      [] t = "Ghost[]" -> "Ghost"
      [] OTHER -> t

Params(endpoint) == IF Has(endpoint, "parameters") THEN endpoint["parameters"] ELSE <<>>

TypeNames(sch) == {sch.types[i].name : i \in DOMAIN sch.types}

\* endpoint.path.split("/")[1] || "general"
ResourceOf(endpoint) ==
    IF Len(endpoint.path) >= 2 /\ endpoint.path[2] # "" THEN endpoint.path[2]
    ELSE "general"

(***************************************************************************)
(* generateMethodName: the name is the sequence of its parts,              *)
(* <<prefix, Capitalized resource>> or <<prefix, Capitalized resource,     *)
(* "ById">>.                                                               *)
(***************************************************************************)
MethodPrefix_CaseSensitive(method) ==
    CASE method = "GET" -> "get"
      [] method = "POST" -> "create"
      [] method \in {"PUT", "PATCH"} -> "update"
      [] method = "DELETE" -> "delete"
      [] OTHER -> "operation"

MethodPrefix(method) ==
    CASE ToUpperCase(method) = "GET" -> "get"
      [] ToUpperCase(method) = "POST" -> "create"
      [] ToUpperCase(method) \in {"PUT", "PATCH"} -> "update"
      [] ToUpperCase(method) = "DELETE" -> "delete"
      [] OTHER -> "operation"

generateMethodName(endpoint) ==
    LET IsNoun(p) == p # "" /\ ~IsPathParam(p)
        pathParts == SelectSeq(endpoint.path, IsNoun)
        resource == IF Len(pathParts) > 0 THEN pathParts[1] ELSE "operation"
        hasIdParam == \E i \in DOMAIN Params(endpoint) :
                          ContainsId(Params(endpoint)[i].name)
        camelResource == LowerFirst(resource)
        baseName == <<MethodPrefix(endpoint.method), Capitalize(camelResource)>>
    IN  IF hasIdParam THEN Append(baseName, "ById") ELSE baseName

(***************************************************************************)
(* The validators: each returns the list of its error messages, a message  *)
(* being <<kind, endpoint index>> or <<kind, endpoint index, parameter>>.  *)
(***************************************************************************)
ValidMethods == {"GET", "POST", "PUT", "PATCH", "DELETE", "HEAD", "OPTIONS"}

isBuiltInType(typeName) ==
    typeName \in {"string", "number", "boolean", "any", "unknown", "void", "null",
                  "undefined", "object", "Array", "Record", "Partial", "Required",
                  "Pick", "Omit"}

\* "{name}" of a parameter name, for endpoint.path.includes(`{${param.name}}`)
Braced(name) ==
    CASE name = "id" -> "{id}"
      [] name = "userId" -> "{userId}"
      [] OTHER -> "{}"

RECURSIVE ParamErrors(_, _, _, _)
ParamErrors(endpoint, e, i, seen) ==
    IF i > Len(Params(endpoint)) THEN <<>>
    ELSE LET param == Params(endpoint)[i]
             dup == IF param.name \in seen
                    THEN << <<"duplicate parameter", e, param.name>> >> ELSE <<>>
             opt == IF (\E j \in DOMAIN endpoint.path : endpoint.path[j] = Braced(param.name))
                       /\ param.required = FALSE
                    THEN << <<"path parameter not required", e, param.name>> >> ELSE <<>>
         IN  IF param.name = ""
             THEN << <<"parameter without name", e, "">> >>
                  \o ParamErrors(endpoint, e, i + 1, seen)
             ELSE IF param.type = ""
             THEN << <<"parameter without type", e, param.name>> >>
                  \o ParamErrors(endpoint, e, i + 1, seen)
             ELSE dup \o opt \o ParamErrors(endpoint, e, i + 1, seen \cup {param.name})

EndpointErrors(sch, e) ==
    LET endpoint == sch.endpoints[e]
        badMethod == IF ToUpperCase(endpoint.method) \notin ValidMethods
                     THEN << <<"invalid method", e, endpoint.method>> >> ELSE <<>>
        badPath == IF endpoint.path[1] # ""
                   THEN << <<"path without leading slash", e, "">> >> ELSE <<>>
        badResponse ==
            IF Has(endpoint, "response") /\ endpoint["response"].type # ""
               /\ StripArray(endpoint["response"].type) \notin TypeNames(sch)
               /\ ~isBuiltInType(StripArray(endpoint["response"].type))
            THEN << <<"undefined response type", e, StripArray(endpoint["response"].type)>> >>
            ELSE <<>>
    IN  IF endpoint.path = <<"">> THEN << <<"missing path", e, "">> >>
        ELSE IF endpoint.method = "" THEN << <<"missing method", e, "">> >>
        ELSE badMethod \o badPath \o ParamErrors(endpoint, e, 1, {}) \o badResponse

\* the errors pushed over a loop, in order
RECURSIVE Flatten(_)
Flatten(ss) == IF ss = <<>> THEN <<>> ELSE Head(ss) \o Flatten(Tail(ss))

validateApiEndpoints(sch) ==
    Flatten([e \in DOMAIN sch.endpoints |-> EndpointErrors(sch, e)])

TypeErrors(sch, e) ==
    LET endpoint == sch.endpoints[e]
        Undefined(t) == StripArray(t) \notin TypeNames(sch) /\ ~isBuiltInType(StripArray(t))
        badResponse ==
            IF Has(endpoint, "response") /\ endpoint["response"].type # ""
               /\ Undefined(endpoint["response"].type)
            THEN << <<"undefined type in response", e, StripArray(endpoint["response"].type)>> >>
            ELSE <<>>
        P(i) == IF Undefined(Params(endpoint)[i].type)
                THEN << <<"undefined type in parameter", e, Params(endpoint)[i].name>> >>
                ELSE <<>>
    IN  badResponse \o Flatten([i \in DOMAIN Params(endpoint) |-> P(i)])

validateTypes(sch) ==
    Flatten([e \in DOMAIN sch.endpoints |-> TypeErrors(sch, e)])

(***************************************************************************)
(* Generated files.  A name (of a file, a directory, a module) is the      *)
(* sequence of the parts it is concatenated from: "users" is <<"users">>,  *)
(* `${storeName}Store` is storeName \o <<"Store">>.  A generator returns   *)
(* its files in insertion order, as a sequence of [name, content]; the     *)
(* content of a file is the set of the relative module specifiers it       *)
(* imports or re-exports: './x' is [up |-> FALSE, segs |-> <<x>>],         *)
(* '../d/x' is [up |-> TRUE, segs |-> <<d, x>>].                           *)
(***************************************************************************)
W(s) == <<s>>

Here(x) == [up |-> FALSE, segs |-> <<x>>]

Up(segs) == [up |-> TRUE, segs |-> segs]

File(name, imports) == [name |-> name, content |-> [imports |-> imports]]

\* files[name] = content on a JavaScript object: a new key goes last, an
\* existing key keeps its place and takes the new value
Put(files, f) ==
    IF \E i \in DOMAIN files : files[i].name = f.name
    THEN [i \in DOMAIN files |-> IF files[i].name = f.name THEN f ELSE files[i]]
    ELSE Append(files, f)

RECURSIVE PutAll(_, _)
PutAll(files, more) ==
    IF more = <<>> THEN files ELSE PutAll(Put(files, Head(more)), Tail(more))

Names(files) == {files[i].name : i \in DOMAIN files}

Elems(s) == {s[i] : i \in DOMAIN s}

\* config.g?.k !== false
NotFalse(cfg, g, k) == ~(Has(cfg, g) /\ Has(cfg[g], k) /\ cfg[g][k] = FALSE)

\* config.g?.k === true
IsTrue(cfg, g, k) == Has(cfg, g) /\ Has(cfg[g], k) /\ cfg[g][k] = TRUE

\* config.folderStructure?.k || dflt
FolderName(cfg, k, dflt) ==
    IF Truthy(Sub(cfg, "folderStructure"), k) THEN cfg["folderStructure"][k] ELSE dflt

\* config.stateManagement && config.stateManagement !== "none"
StoresEnabled(cfg) == Truthy(cfg, "stateManagement") /\ cfg["stateManagement"] # "none"

(* generateTypesFiles *)
generateTypesFiles(sch, cfg) ==
    LET TypeFile(i) == File(W(ToLowerCase(sch.types[i].name)), {})
        typeFiles == PutAll(<<>>, [i \in DOMAIN sch.types |-> TypeFile(i)])
        index == File(W("index"),
                      {Here(W(ToLowerCase(sch.types[i].name))) : i \in DOMAIN sch.types})
    IN  Put(typeFiles, index)

\* the interface each type file of generateTypesFiles holds: `export
\* interface ${typeName}` with the fields in Object.entries order
TypeInterfaces(sch) ==
    PutAll(<<>>, [i \in DOMAIN sch.types |->
                     [name |-> W(ToLowerCase(sch.types[i].name)),
                      interface |-> sch.types[i].name,
                      fields |-> sch.types[i].fields]])

\* the `export * from` lines of the index file of generateTypesFiles
TypeIndexExports(sch) == [i \in DOMAIN sch.types |-> W(ToLowerCase(sch.types[i].name))]

(* getAvailableServices: the resources of the schema, in order of first use *)
RECURSIVE Dedup(_)
Dedup(s) ==
    IF s = <<>> THEN <<>>
    ELSE LET rest == Dedup(SubSeq(s, 1, Len(s) - 1))
             last == s[Len(s)]
         IN  IF \E i \in DOMAIN rest : rest[i] = last THEN rest ELSE Append(rest, last)

getAvailableServices(sch) ==
    Dedup([i \in DOMAIN sch.endpoints |-> ResourceOf(sch.endpoints[i])])

\* lines 42-53: the two console.warn calls for the selected services that
\* the schema does not have
ServiceWarnings(sch, cfg) ==
    LET availableServices == getAvailableServices(sch)
        Invalid(service) == service \notin Elems(availableServices)
        invalidServices ==
            IF Has(Sub(cfg, "services"), "include")
            THEN SelectSeq(cfg["services"]["include"], Invalid) ELSE <<>>
    IN  IF Len(invalidServices) > 0
        THEN << [warn |-> "not available", services |-> invalidServices],
                [warn |-> "available", services |-> availableServices] >>
        ELSE <<>>

(* generateApiFiles *)
generateApiFiles(sch, cfg) ==
    LET groupByResource == NotFalse(cfg, "api", "groupByResource")
        includeHttpClient == NotFalse(cfg, "api", "includeHttpClient")
        availableServices == getAvailableServices(sch)
        servicesToGenerate ==
            IF Has(Sub(cfg, "services"), "include") THEN cfg["services"]["include"]
            ELSE availableServices
        Selected(r) == r \in Elems(servicesToGenerate)
        resources == SelectSeq(availableServices, Selected)
        httpImport ==
            IF includeHttpClient
            THEN {Up(<<W(FolderName(cfg, "client", "client")), W("http")>>)} ELSE {}
        resourceFiles ==
            PutAll(<<>>, [i \in DOMAIN resources |-> File(W(resources[i]), httpImport)])
        groupedIndex == File(W("index"), {Here(W(resources[i])) : i \in DOMAIN resources})
    IN  IF groupByResource THEN Put(resourceFiles, groupedIndex)
        ELSE << File(W("index"), httpImport) >>

\* the `export const ${methodName}` lines of each file of generateApiFiles,
\* in the order they are written
ApiExports(sch, cfg) ==
    LET servicesToGenerate ==
            IF Has(Sub(cfg, "services"), "include") THEN cfg["services"]["include"]
            ELSE getAvailableServices(sch)
        Selected(r) == r \in Elems(servicesToGenerate)
        In(endpoint) == Selected(ResourceOf(endpoint))
        resources == SelectSeq(getAvailableServices(sch), Selected)
        MethodNames(endpoints) == [i \in DOMAIN endpoints |-> generateMethodName(endpoints[i])]
        Of(resource) ==
            LET Same(endpoint) == ResourceOf(endpoint) = resource
            IN  SelectSeq(sch.endpoints, Same)
    IN  IF NotFalse(cfg, "api", "groupByResource")
        THEN [i \in DOMAIN resources |->
                 [file |-> W(resources[i]), names |-> MethodNames(Of(resources[i]))]]
        ELSE << [file |-> W("index"), names |-> MethodNames(SelectSeq(sch.endpoints, In))] >>

(* generateMainClientClass: the imports of client/index.ts *)
MainClientImports(cfg) ==
    {Up(<<W(FolderName(cfg, "api", "api"))>>)}
    \cup (IF Has(Sub(cfg, "response"), "pattern") /\ cfg["response"]["pattern"] = "promise"
          THEN {} ELSE {Here(W("http"))})
    \cup (IF NotFalse(cfg, "plugins", "enabled") THEN {Here(W("plugins"))} ELSE {})

(* generateClientFiles *)
generateClientFiles(sch, cfg, mergedConfig) ==
    LET If(c, f) == IF c THEN <<f>> ELSE <<>>
    IN  PutAll(<<>>,
            If(NotFalse(cfg, "api", "includeHttpClient"), File(W("http"), {}))
         \o If(NotFalse(cfg, "errorHandling", "enabled")
               /\ NotFalse(cfg, "response", "includeErrorClasses"), File(W("errors"), {}))
         \o If(NotFalse(cfg, "plugins", "enabled"), File(W("plugins"), {}))
         \o If(NotFalse(cfg, "client", "enabled"), File(W("index"), MainClientImports(cfg)))
         \o << File(W("config"), {}) >>
         \o If(NotFalse(cfg, "client", "includeUtils"), File(W("utils"), {})))

(* generateStoreFiles *)
StoreName(endpoint) ==
    LET methodName == generateMethodName(endpoint)
    IN  <<Capitalize(methodName[1])>> \o Tail(methodName)

generateZustandEndpointStore(endpoint) ==
    File(StoreName(endpoint) \o <<"Store">>,
         {Up(<<W("api"), W(ResourceOf(endpoint))>>)})

\* the keys assigned by the loop of the endpoint stores, in order
StoreWrites(sch, cfg) ==
    IF Has(cfg, "stateManagement") /\ cfg["stateManagement"] = "zustand"
    THEN [i \in DOMAIN sch.endpoints |-> StoreName(sch.endpoints[i]) \o <<"Store">>]
    ELSE <<>>

generateStoreFiles(sch, cfg) ==
    IF Has(cfg, "stateManagement") /\ cfg["stateManagement"] = "zustand"
    THEN LET index == File(W("index"),
                 {Here(W("apiStore"))}
                 \cup {Here(StoreName(sch.endpoints[i]) \o <<"Store">>)
                          : i \in DOMAIN sch.endpoints})
         IN  PutAll(<< index, File(W("apiStore"), {}) >>,
                    [i \in DOMAIN sch.endpoints |->
                        generateZustandEndpointStore(sch.endpoints[i])])
    ELSE IF Has(cfg, "stateManagement") /\ cfg["stateManagement"] = "redux"
    THEN << File(W("index"), {Here(W("store")), Here(W("apiSlice"))}),
            File(W("store"), {Here(W("apiSlice"))}),
            File(W("apiSlice"), {}) >>
    ELSE <<>>

(* generateMainIndexFile: the re-exports of the root index.ts *)
generateMainIndexFile(cfg) ==
    {Here(W("types")), Here(W("api")), Here(W("client"))}
    \cup (IF StoresEnabled(cfg) THEN {Here(W("stores"))} ELSE {})

(***************************************************************************)
(* The filesystem.  A path is the sequence of its segments below the       *)
(* working directory, each segment a name; fs.dirs is the set of the       *)
(* directories, fs.files maps each file's path to its content.             *)
(***************************************************************************)
\* the path "" (generateCode's outputDir before it is resolved): no entry
NoPath == << W("") >>

\* path.resolve(process.cwd(), dir) on the directory strings of the model
PathOf(dir) ==
    CASE dir = "./src/services" -> << W("src"), W("services") >>
      [] dir = "./src/services/reatchify" -> << W("src"), W("services"), W("reatchify") >>
      [] OTHER -> << W(dir) >>

IsPrefix(p, q) == Len(p) <= Len(q) /\ SubSeq(q, 1, Len(p)) = p

Parent(p) == SubSeq(p, 1, Len(p) - 1)

\* fs.existsSync
ExistsSync(f, p) == p \in f.dirs \/ p \in DOMAIN f.files

\* fs.readdirSync: the entries directly below p
ReaddirSync(f, p) ==
    {q \in f.dirs \cup DOMAIN f.files : Len(q) = Len(p) + 1 /\ IsPrefix(p, q)}

\* fs.accessSync(p, W_OK) returns (the working directory itself is writable)
Writable(f, p) == p = <<>> \/ p \in f.dirs

\* fs.mkdirSync(p, { recursive: true })
MkdirSync(f, p) ==
    [f EXCEPT !.dirs = @ \cup {SubSeq(p, 1, n) : n \in 1..Len(p)}]

\* fs.writeFileSync(p, content)
WriteFileSync(f, p, content) == [f EXCEPT !.files = (p :> content) @@ @]

\* fs.rmSync(p, { recursive: true, force: true })
RmSync(f, p) ==
    [dirs |-> {d \in f.dirs : ~IsPrefix(p, d)},
     files |-> [q \in {x \in DOMAIN f.files : ~IsPrefix(p, x)} |-> f.files[q]]]

\* getDefaultOutputDir
getDefaultOutputDir(f) ==
    IF ExistsSync(f, PathOf("./src/services")) THEN "./src/services/reatchify"
    ELSE "./src/services"

\* the first k files of a generator's result written into dir
RECURSIVE WriteFiles(_, _, _, _)
WriteFiles(f, dir, files, k) ==
    IF k = 0 THEN f
    ELSE WriteFileSync(WriteFiles(f, dir, files, k - 1),
                       Append(dir, files[k].name), files[k].content)

StaleFile == [imports |-> {}]

NoFiles == [p \in {} |-> StaleFile]

\* no project directory at all
FsBare == [dirs |-> {}, files |-> NoFiles]

\* a fresh project
FsProject == [dirs |-> {<< W("src") >>}, files |-> NoFiles]

\* a project that holds the output of an earlier run
FsGenerated ==
    [dirs |-> {<< W("src") >>, PathOf("./src/services"), PathOf("./src/services/reatchify")},
     files |-> (Append(PathOf("./src/services/reatchify"), W("old")) :> StaleFile)]

\* a project with a populated custom output directory
FsCustom ==
    [dirs |-> {<< W("src") >>, PathOf("out")},
     files |-> (Append(PathOf("out"), W("old")) :> StaleFile)]

Filesystems == {FsBare, FsProject, FsGenerated, FsCustom}

(***************************************************************************)
(* The configurations of a generation run: the plain configuration (only   *)
(* the credential) changed by at most MaxOptions of the options below.     *)
(***************************************************************************)
PlainConfig == [apiKey |-> "key"]

Options ==
    {"noApiKey", "emptyApiKey", "dryRun", "noOverwrite", "noComments", "validateOutput",
     "apiOff", "flatApi", "noHttp", "clientOff", "zustand", "redux", "none",
     "onlyUsers", "pluginsOff", "promise", "clientFolder", "outDir",
     "hooks", "beforeThrows", "afterThrows", "next", "fetch"}

AllHooks(before, after) ==
    [advanced |-> [hooks |-> [beforeGenerate |-> before, afterGenerate |-> after,
                              onError |-> "returns"]]]

OptionPatch(o) ==
    CASE o = "emptyApiKey" -> [apiKey |-> ""]
      [] o = "dryRun" -> [generation |-> [dryRun |-> TRUE]]
      [] o = "noOverwrite" -> [generation |-> [overwrite |-> FALSE]]
      [] o = "noComments" -> [generation |-> [includeComments |-> FALSE]]
      [] o = "validateOutput" -> [generation |-> [validateOutput |-> TRUE]]
      [] o = "apiOff" -> [api |-> [enabled |-> FALSE]]
      [] o = "flatApi" -> [api |-> [groupByResource |-> FALSE]]
      [] o = "noHttp" -> [api |-> [includeHttpClient |-> FALSE]]
      [] o = "clientOff" -> [client |-> [enabled |-> FALSE]]
      [] o = "zustand" -> [stateManagement |-> "zustand"]
      [] o = "redux" -> [stateManagement |-> "redux"]
      [] o = "none" -> [stateManagement |-> "none"]
      [] o = "onlyUsers" -> [services |-> [include |-> <<"users">>]]
      [] o = "pluginsOff" -> [plugins |-> [enabled |-> FALSE]]
      [] o = "promise" -> [response |-> [pattern |-> "promise"]]
      [] o = "clientFolder" -> [folderStructure |-> [client |-> "core"]]
      [] o = "outDir" -> [outputDir |-> "out"]
      [] o = "next" -> [projectType |-> "next"]
      [] o = "fetch" -> [httpClient |-> "fetch"]
      [] o = "hooks" -> AllHooks("returns", "returns")
      [] o = "beforeThrows" -> AllHooks("throws", "returns")
      [] o = "afterThrows" -> AllHooks("returns", "throws")
      [] OTHER -> Empty

\* cfg with the option set: the keys of a group already set are kept
WithOption(cfg, o) ==
    IF o = "noApiKey" THEN [k \in DOMAIN cfg \ {"apiKey"} |-> cfg[k]]
    ELSE LET patch == OptionPatch(o)
         IN  [k \in DOMAIN cfg \cup DOMAIN patch |->
                 IF k \in DOMAIN cfg /\ k \in DOMAIN patch
                 THEN IF k \in {"apiKey", "stateManagement", "outputDir", "advanced"}
                      THEN patch[k] ELSE patch[k] @@ cfg[k]
                 ELSE IF k \in DOMAIN patch THEN patch[k] ELSE cfg[k]]

RECURSIVE WithOptions(_, _)
WithOptions(cfg, os) ==
    IF os = {} THEN cfg
    ELSE LET o == CHOOSE x \in os : TRUE
         IN  WithOptions(WithOption(cfg, o), os \ {o})

RunConfigs == {WithOptions(PlainConfig, os) : os \in SubsetsUpTo(Options, MaxOptions)}

(***************************************************************************)
(* generateCode, step by step.                                             *)
(***************************************************************************)
Event(op, arg) == [op |-> op, arg |-> arg]

\* no function was called on its own
NoCall == [fn |-> "none"]

(***************************************************************************)
(* The generated SDK at run time.  A value that travels through a call (a  *)
(* request configuration, a response, an error) carries the marks of the   *)
(* plugin hooks that transformed it, in order.                             *)
(***************************************************************************)
Null == [kind |-> "null"]

Value(kind) == [kind |-> kind, marks |-> <<>>]

\* the result pattern's { data, error }
Pair(data, err) == [kind |-> "pair", data |-> data, error |-> err]

\* generateZustandEndpointStore, lines 914-917: the initial state of a store
InitialStore == [data |-> Null, loading |-> FALSE, error |-> Null]

Idle == [kind |-> "idle", pc |-> "", chain |-> "", i |-> 0, value |-> Null]

\* config?.advanced?.hooks?.h: "" when the hook is not set
HookOf(cfg, h) ==
    IF Has(Sub(Sub(cfg, "advanced"), "hooks"), h) THEN cfg["advanced"]["hooks"][h] ELSE ""

DryRun(cfg) == IsTrue(cfg, "generation", "dryRun")

\* config.generation?.overwrite !== false
Overwrite(cfg) == NotFalse(cfg, "generation", "overwrite")

\* a run that does not look at the credential
ApiKeyMissing_Never(cfg) == FALSE

\* !config.apiKey
ApiKeyMissing(cfg) == ~Truthy(cfg, "apiKey")

Throw(message) == pc' = "catch" /\ error' = message

GroupDir(group) == Append(outputDir, W(group))

\* lines 33-37: the beforeGenerate hook
BeforeGenerate ==
    /\ pc = "start"
    /\ UNCHANGED <<plugins, store, call, out, console, config, nodeEnv, rpc, resolved, fs0, schema, fs, outputDir>>
    /\ IF HookOf(config, "beforeGenerate") = ""
       THEN pc' = "validate" /\ UNCHANGED <<error, trace>>
       ELSE /\ trace' = Append(trace, Event("hook", << W("beforeGenerate") >>))
            /\ IF HookOf(config, "beforeGenerate") = "throws"
               THEN Throw("beforeGenerate failed")
               ELSE pc' = "validate" /\ UNCHANGED error

\* lines 39-48: early validation
CheckApiKey ==
    /\ pc = "validate"
    /\ UNCHANGED <<plugins, store, call, out, console, config, nodeEnv, rpc, resolved, fs0, schema, fs, outputDir, trace>>
    /\ IF ApiKeyMissing(config)
       THEN Throw("API key is required")
       ELSE pc' = "fetch" /\ UNCHANGED error

\* lines 50-52: merge the configuration, await the schema
FetchSchema ==
    /\ pc = "fetch"
    /\ resolved' = mergeConfigWithDefaults(config, nodeEnv, getDefaultOutputDir(fs))
    /\ rpc' = "resolved"
    /\ \E s \in Schemas : schema' = s
    /\ trace' = Append(trace, Event("fetchSchema", <<>>))
    /\ pc' = "schema"
    /\ UNCHANGED <<plugins, store, call, out, console, config, nodeEnv, fs, fs0, outputDir, error>>

\* lines 54-59: the schema check
CheckSchema ==
    /\ pc = "schema"
    /\ UNCHANGED <<plugins, store, call, out, console, config, nodeEnv, rpc, resolved, fs0, schema, fs, outputDir, trace>>
    /\ IF Len(schema.endpoints) = 0
       THEN Throw("Invalid schema: No endpoints found")
       ELSE pc' = "output" /\ UNCHANGED error

\* lines 64-67
ResolveOutputDir(cfg, f) ==
    PathOf(IF Truthy(cfg, "outputDir") THEN cfg["outputDir"] ELSE getDefaultOutputDir(f))

\* a run that does not look at the output root
OverwriteGuard_IgnoresFiles(cfg, f, dir) == FALSE

\* lines 73-75: the output root holds files that must not be overwritten
OverwriteGuard(cfg, f, dir) ==
    ~DryRun(cfg) /\ ~Overwrite(cfg) /\ ExistsSync(f, dir) /\ ReaddirSync(f, dir) # {}

\* lines 64-93: the output root, the overwrite guard, the write check, mkdir
PrepareOutput ==
    /\ pc = "output"
    /\ outputDir' = ResolveOutputDir(config, fs)
    /\ UNCHANGED <<plugins, store, call, out, console, config, nodeEnv, rpc, resolved, schema, fs0>>
    /\ IF OverwriteGuard(config, fs, outputDir')
       THEN Throw("Output directory is not empty") /\ UNCHANGED <<fs, trace>>
       ELSE IF DryRun(config)
       THEN pc' = "install" /\ UNCHANGED <<fs, trace, error>>
       ELSE IF ~Writable(fs, Parent(outputDir'))
       THEN Throw("Output directory is not writable") /\ UNCHANGED <<fs, trace>>
       ELSE \/ /\ fs' = MkdirSync(fs, outputDir')
               /\ trace' = Append(trace, Event("mkdir", outputDir'))
               /\ pc' = "install" /\ UNCHANGED error
            \/ Throw("mkdir failed") /\ UNCHANGED <<fs, trace>>

\* lines 205-239: the packages installDependencies asks npm for
Dependencies(cfg) ==
    (IF cfg["httpClient"] = "axios" THEN << W("axios") >> ELSE <<>>)
    \o (IF cfg["stateManagement"] = "zustand" THEN << W("zustand") >>
        ELSE IF cfg["stateManagement"] = "redux"
        THEN << W("redux"), W("react-redux"), W("@reduxjs/toolkit") >> ELSE <<>>)
    \o (IF IsTrue(Sub(cfg, "http"), "retry", "enabled") THEN << W("axios-retry") >> ELSE <<>>)

\* lines 95-96
InstallDependencies ==
    /\ pc = "install"
    /\ trace' = IF Dependencies(resolved) = <<>> THEN trace
                ELSE Append(trace, Event("npm install", Dependencies(resolved)))
    /\ pc' = "dirs"
    /\ UNCHANGED <<plugins, store, call, out, console, config, nodeEnv, rpc, resolved, fs0, schema, fs, outputDir, error>>

\* the first k group directories created
RECURSIVE MkDirs(_, _, _)
MkDirs(f, dirs, k) == IF k = 0 THEN f ELSE MkdirSync(MkDirs(f, dirs, k - 1), dirs[k])

MkdirEvents(dirs, k) == [i \in 1..k |-> Event("mkdir", dirs[i])]

\* lines 104-113: the group directories
MakeGroupDirs ==
    /\ pc = "dirs"
    /\ UNCHANGED <<plugins, store, call, out, console, config, nodeEnv, rpc, resolved, fs0, schema, outputDir>>
    /\ LET dirs == << GroupDir("types"), GroupDir("api"), GroupDir("client") >>
       IN  IF DryRun(config)
           THEN pc' = "types" /\ UNCHANGED <<fs, trace, error>>
           ELSE \/ /\ fs' = MkDirs(fs, dirs, Len(dirs))
                   /\ trace' = trace \o MkdirEvents(dirs, Len(dirs))
                   /\ pc' = "types" /\ UNCHANGED error
                \/ \E k \in 0..(Len(dirs) - 1) :
                       /\ fs' = MkDirs(fs, dirs, k)
                       /\ trace' = trace \o MkdirEvents(dirs, k)
                       /\ Throw("mkdir failed")

WriteEvents(dir, files, k) == [i \in 1..k |-> Event("write", Append(dir, files[i].name))]

\* one generator call and the loop writing its files into dir, from the
\* filesystem f0 and the trace t0; then next
RunGenerator(f0, t0, group, files, dir, next) ==
    \/ /\ trace' = Append(t0, Event("generate", << W(group) >>))
                   \o (IF DryRun(config) THEN <<>> ELSE WriteEvents(dir, files, Len(files)))
       /\ fs' = IF DryRun(config) THEN f0 ELSE WriteFiles(f0, dir, files, Len(files))
       /\ pc' = next /\ UNCHANGED error
    \/ /\ trace' = Append(t0, Event("generate", << W(group) >>))
       /\ fs' = f0
       /\ Throw("generator failed")
    \/ /\ ~DryRun(config)
       /\ \E k \in 0..(Len(files) - 1) :
              /\ trace' = Append(t0, Event("generate", << W(group) >>))
                          \o WriteEvents(dir, files, k)
              /\ fs' = WriteFiles(f0, dir, files, k)
              /\ Throw("write failed")

Skip(next) == pc' = next /\ UNCHANGED <<fs, trace, error>>

\* lines 115-123
GenerateTypes ==
    /\ pc = "types"
    /\ UNCHANGED <<plugins, store, call, out, console, config, nodeEnv, rpc, resolved, fs0, schema, outputDir>>
    /\ IF NotFalse(config, "generation", "includeComments")
       THEN RunGenerator(fs, trace, "types", generateTypesFiles(schema, config), GroupDir("types"), "api")
       ELSE Skip("api")

\* lines 125-133
GenerateApi ==
    /\ pc = "api"
    /\ UNCHANGED <<plugins, store, call, out, config, nodeEnv, rpc, resolved, fs0, schema, outputDir>>
    /\ IF NotFalse(config, "api", "enabled")
       THEN /\ console' = console \o ServiceWarnings(schema, config)
            /\ RunGenerator(fs, trace, "api", generateApiFiles(schema, config),
                            GroupDir("api"), "client")
       ELSE Skip("client") /\ UNCHANGED console

\* lines 135-143
GenerateClient ==
    /\ pc = "client"
    /\ UNCHANGED <<plugins, store, call, out, console, config, nodeEnv, rpc, resolved, fs0, schema, outputDir>>
    /\ IF NotFalse(config, "client", "enabled")
       THEN RunGenerator(fs, trace, "client", generateClientFiles(schema, config, resolved),
                         GroupDir("client"), "stores")
       ELSE Skip("stores")

\* lines 145-158
GenerateStores ==
    /\ pc = "stores"
    /\ UNCHANGED <<plugins, store, call, out, console, config, nodeEnv, rpc, resolved, fs0, schema, outputDir>>
    /\ IF Has(config, "stateManagement") /\ config["stateManagement"] = "none"
       THEN Skip("index")
       ELSE IF DryRun(config)
       THEN RunGenerator(fs, trace, "stores", generateStoreFiles(schema, config),
                         GroupDir("stores"), "index")
       ELSE \/ RunGenerator(MkdirSync(fs, GroupDir("stores")),
                            Append(trace, Event("mkdir", GroupDir("stores"))),
                            "stores", generateStoreFiles(schema, config),
                            GroupDir("stores"), "index")
            \/ Throw("mkdir failed") /\ UNCHANGED <<fs, trace>>

\* a run that writes no root index
GenerateIndex_Omitted ==
    /\ pc = "index"
    /\ UNCHANGED <<plugins, store, call, out, console, config, nodeEnv, rpc, resolved, fs0, schema, outputDir>>
    /\ Skip("finish")

\* lines 160-164
GenerateIndex ==
    /\ pc = "index"
    /\ UNCHANGED <<plugins, store, call, out, console, config, nodeEnv, rpc, resolved, fs0, schema, outputDir>>
    /\ RunGenerator(fs, trace, "index",
                    << File(W("index"), generateMainIndexFile(config)) >>,
                    outputDir, "finish")

\* lines 166-181: the best-effort type check, the afterGenerate hook
Finish ==
    /\ pc = "finish"
    /\ UNCHANGED <<plugins, store, call, out, console, config, nodeEnv, rpc, resolved, fs0, schema, fs, outputDir>>
    /\ LET checked == IF IsTrue(config, "generation", "validateOutput") /\ ~DryRun(config)
                      THEN Append(trace, Event("tsc", outputDir)) ELSE trace
       IN  IF HookOf(config, "afterGenerate") = ""
           THEN trace' = checked /\ pc' = "done" /\ UNCHANGED error
           ELSE /\ trace' = Append(checked, Event("hook", << W("afterGenerate") >>))
                /\ IF HookOf(config, "afterGenerate") = "throws"
                   THEN Throw("afterGenerate failed")
                   ELSE pc' = "done" /\ UNCHANGED error

\* lines 115-164 as a function: the files a run that succeeds writes for
\* cfg, each with its group ("index" for the root index), name and content
RunFiles(sch, cfg, mergedConfig) ==
    LET InGroup(group, files) ==
            {<<group, files[i].name, files[i].content>> : i \in DOMAIN files}
    IN  (IF NotFalse(cfg, "generation", "includeComments")
         THEN InGroup("types", generateTypesFiles(sch, cfg)) ELSE {})
        \cup (IF NotFalse(cfg, "api", "enabled")
              THEN InGroup("api", generateApiFiles(sch, cfg)) ELSE {})
        \cup (IF NotFalse(cfg, "client", "enabled")
              THEN InGroup("client", generateClientFiles(sch, cfg, mergedConfig)) ELSE {})
        \cup (IF Has(cfg, "stateManagement") /\ cfg["stateManagement"] = "none"
              THEN {} ELSE InGroup("stores", generateStoreFiles(sch, cfg)))
        \cup InGroup("index", << File(W("index"), generateMainIndexFile(cfg)) >>)

\* a catch block that leaves the output in place
Cleanup_Skipped(f, dir) == f

\* lines 186-192: cleanup of partially generated files
Cleanup(f, dir) == IF ExistsSync(f, dir) THEN RmSync(f, dir) ELSE f

\* lines 182-202: the catch block
Catch ==
    /\ pc = "catch"
    /\ fs' = Cleanup(fs, outputDir)
    /\ trace' = (IF fs' # fs THEN Append(trace, Event("rm", outputDir)) ELSE trace)
                \o (IF HookOf(config, "onError") = "" THEN <<>>
                    ELSE << Event("hook", << W("onError") >>) >>)
    /\ pc' = "rejected"
    /\ UNCHANGED <<plugins, store, call, out, console, config, nodeEnv, rpc, resolved, fs0, schema, outputDir, error>>

(***************************************************************************)
(* Specification of one generation run: a configuration and a filesystem   *)
(* are drawn, generateCode runs to its end.                                *)
(***************************************************************************)
Init ==
    /\ config \in RunConfigs
    /\ nodeEnv = ""
    /\ rpc = "input"
    /\ resolved = Empty
    /\ schema = NoSchema
    /\ fs \in Filesystems
    /\ fs0 = fs
    /\ pc = "start"
    /\ outputDir = NoPath
    /\ error = ""
    /\ trace = <<>>
    /\ console = <<>>
    /\ out = NoCall
    /\ plugins = <<>>
    /\ store = InitialStore
    /\ call = Idle

Next ==
    \/ BeforeGenerate
    \/ CheckApiKey
    \/ FetchSchema
    \/ CheckSchema
    \/ PrepareOutput
    \/ InstallDependencies
    \/ MakeGroupDirs
    \/ GenerateTypes
    \/ GenerateApi
    \/ GenerateClient
    \/ GenerateStores
    \/ GenerateIndex
    \/ Finish
    \/ Catch

Spec == Init /\ [][Next]_vars

(***************************************************************************)
(* Specification of the resolver: a user configuration and an environment  *)
(* are drawn, mergeConfigWithDefaults is applied.                          *)
(***************************************************************************)
InitResolve ==
    /\ config \in UserConfigs
    /\ nodeEnv \in NodeEnvs
    /\ rpc = "input"
    /\ resolved = Empty
    /\ schema = NoSchema
    /\ fs \in {FsProject, FsGenerated}
    /\ fs0 = fs
    /\ pc = "idle"
    /\ outputDir = NoPath
    /\ error = ""
    /\ trace = <<>>
    /\ console = <<>>
    /\ out = NoCall
    /\ plugins = <<>>
    /\ store = InitialStore
    /\ call = Idle

Resolve ==
    /\ rpc = "input"
    /\ rpc' = "resolved"
    /\ resolved' = mergeConfigWithDefaults(config, nodeEnv, getDefaultOutputDir(fs))
    /\ UNCHANGED <<plugins, store, call, out, console, config, nodeEnv, pipelineVars>>

NextResolve == Resolve

SpecResolve == InitResolve /\ [][NextResolve]_vars

(***************************************************************************)
(* Specification of consecutive generation runs in one project: when a run *)
(* has ended successfully generateCode is called again, with the same      *)
(* configuration or with one whose state management or allow-list was      *)
(* changed.  out keeps what the first run left.                            *)
(***************************************************************************)
RerunOptions == {"zustand", "none", "onlyUsers", "outDir", "noOverwrite", "dryRun"}

RerunConfigs == {WithOptions(PlainConfig, os) : os \in SubsetsUpTo(RerunOptions, MaxOptions)}

Reconfigured(cfg) == {cfg, WithOption(cfg, "none"), WithOption(cfg, "onlyUsers")}

InitRerun ==
    /\ config \in RerunConfigs
    /\ nodeEnv = ""
    /\ rpc = "input"
    /\ resolved = Empty
    /\ schema = NoSchema
    /\ fs \in Filesystems
    /\ fs0 = fs
    /\ pc = "start"
    /\ outputDir = NoPath
    /\ error = ""
    /\ trace = <<>>
    /\ console = <<>>
    /\ out = NoCall
    /\ plugins = <<>>
    /\ store = InitialStore
    /\ call = Idle

\* the second call of generateCode
Rerun ==
    /\ pc = "done" /\ out = NoCall
    /\ out' = [fn |-> "generateCode", config |-> config, schema |-> schema,
                outputDir |-> outputDir, fs |-> fs,
                written |-> {trace[i].arg : i \in {j \in DOMAIN trace : trace[j].op = "write"}}]
    /\ config' \in Reconfigured(config)
    /\ pc' = "start" /\ fs0' = fs /\ trace' = <<>> /\ error' = ""
    /\ rpc' = "input" /\ resolved' = Empty /\ schema' = NoSchema /\ outputDir' = NoPath
    /\ UNCHANGED <<nodeEnv, fs, console, plugins, store, call>>

NextRerun ==
    \/ Next
    \/ Rerun

SpecRerun == InitRerun /\ [][NextRerun]_vars

(***************************************************************************)
(* Specification of the generator functions on their own: a schema and a   *)
(* configuration are drawn, one function is called.                        *)
(***************************************************************************)
IdParam(name) == << [name |-> name, type |-> "string", required |-> TRUE] >>

EndpointPool ==
    {[path |-> <<"", "users">>, method |-> "GET", response |-> [type |-> "User[]"]],
     [path |-> <<"", "users", "{id}">>, method |-> "GET", parameters |-> IdParam("id")],
     [path |-> <<"", "users", "{id}">>, method |-> "PUT", parameters |-> IdParam("id")],
     [path |-> <<"", "users", "{id}">>, method |-> "patch", parameters |-> IdParam("id")],
     [path |-> <<"", "users", "{id}", "posts">>, method |-> "GET",
      parameters |-> IdParam("id")],
     [path |-> <<"", "posts">>, method |-> "POST", parameters |-> IdParam("title")],
     [path |-> <<"", "posts", "{id}">>, method |-> "DELETE",
      parameters |-> IdParam("postID")],
     [path |-> <<"", "index">>, method |-> "HEAD"],
     [path |-> <<"", "Users">>, method |-> "get"],
     [path |-> <<"", "{id}">>, method |-> "GET", parameters |-> IdParam("valid")],
     [path |-> <<"", "">>, method |-> "OPTIONS"]}

RECURSIVE SeqsUpTo(_, _)
SeqsUpTo(S, n) ==
    IF n = 0 THEN {<<>>}
    ELSE SeqsUpTo(S, n - 1)
         \cup {Append(q, x) : q \in {r \in SeqsUpTo(S, n - 1) : Len(r) = n - 1}, x \in S}

\* schema.types is an object: its keys, the type names, are distinct
TypePool ==
    {[name |-> "User", fields |-> <<"id", "name">>],
     [name |-> "USER", fields |-> <<"email">>],
     [name |-> "Post", fields |-> <<"title", "id">>],
     [name |-> "Index", fields |-> <<"id">>]}

TypeLists ==
    {ts \in SeqsUpTo(TypePool, MaxTypes) :
        \A i, j \in DOMAIN ts : i # j => ts[i].name # ts[j].name}

GenSchemas ==
    {[endpoints |-> es, types |-> ShopSchema.types] : es \in SeqsUpTo(EndpointPool, MaxEndpoints)}
    \cup {[endpoints |-> ShopSchema.endpoints, types |-> ts] : ts \in TypeLists}

AllowLists ==
    {<<>>, <<"users">>, <<"posts", "users">>, <<"users", "ghost">>, <<"ghost">>, <<"index">>}

GenConfigs ==
    {Spread(Spread(a, g), m) :
        a \in {Empty} \cup {[services |-> [include |-> l]] : l \in AllowLists},
        g \in {Empty, [api |-> [groupByResource |-> FALSE]]},
        m \in {Empty, [stateManagement |-> "zustand"]}}

InitGenerators ==
    /\ config \in GenConfigs
    /\ schema \in GenSchemas
    /\ nodeEnv = ""
    /\ rpc = "input"
    /\ resolved = Empty
    /\ fs = FsProject
    /\ fs0 = fs
    /\ pc = "idle"
    /\ outputDir = NoPath
    /\ error = ""
    /\ trace = <<>>
    /\ console = <<>>
    /\ out = NoCall
    /\ plugins = <<>>
    /\ store = InitialStore
    /\ call = Idle

CallGenerateApiFiles ==
    /\ out = NoCall
    /\ out' = [fn |-> "generateApiFiles", result |-> "returned",
                files |-> generateApiFiles(schema, config),
                exports |-> ApiExports(schema, config)]
    /\ console' = console \o ServiceWarnings(schema, config)
    /\ UNCHANGED <<config, nodeEnv, rpc, resolved, schema, fs, fs0, pc, outputDir, error, trace,
                   plugins, store, call>>

CallGenerateTypesFiles ==
    /\ out = NoCall
    /\ out' = [fn |-> "generateTypesFiles", result |-> "returned",
                files |-> generateTypesFiles(schema, config),
                interfaces |-> TypeInterfaces(schema),
                exports |-> TypeIndexExports(schema)]
    /\ UNCHANGED <<config, nodeEnv, rpc, resolved, schema, fs, fs0, pc, outputDir, error, trace,
                   console, plugins, store, call>>

CallGenerateStoreFiles ==
    /\ out = NoCall
    /\ out' = [fn |-> "generateStoreFiles", result |-> "returned",
                files |-> generateStoreFiles(schema, config),
                written |-> StoreWrites(schema, config)]
    /\ UNCHANGED <<config, nodeEnv, rpc, resolved, schema, fs, fs0, pc, outputDir, error, trace,
                   console, plugins, store, call>>

CallGenerateMethodName ==
    /\ out = NoCall
    /\ \E i \in DOMAIN schema.endpoints :
           out' = [fn |-> "generateMethodName", result |-> "returned",
                   endpoint |-> schema.endpoints[i],
                   name |-> generateMethodName(schema.endpoints[i])]
    /\ UNCHANGED <<config, nodeEnv, rpc, resolved, schema, fs, fs0, pc, outputDir, error, trace,
                   console, plugins, store, call>>

NextGenerators ==
    \/ CallGenerateApiFiles
    \/ CallGenerateStoreFiles
    \/ CallGenerateMethodName
    \/ CallGenerateTypesFiles

SpecGenerators == InitGenerators /\ [][NextGenerators]_vars

(***************************************************************************)
(* Specification of the generated SDK: plugins are registered on a client, *)
(* then calls are made one at a time: a hook chain of the registry on its  *)
(* own, the client's request method, a function of the api module, the     *)
(* fetch action of an endpoint store.                                      *)
(***************************************************************************)
HookKinds == {"beforeRequest", "afterResponse", "onError"}

\* a plugin: its name and the hooks it has; each hook leaves its mark
PluginPool ==
    {[name |-> n] @@ [h \in hs |-> "marks"] : n \in {"a", "b"}, hs \in SUBSET HookKinds}

SdkConfigs ==
    {Empty, [response |-> [pattern |-> "promise"]], [plugins |-> [enabled |-> FALSE]],
     [api |-> [includeHttpClient |-> FALSE]]}

\* responseConfig.pattern !== "promise"
ResultPattern(cfg) ==
    ~(Has(Sub(cfg, "response"), "pattern") /\ cfg["response"]["pattern"] = "promise")

PluginsEnabled(cfg) == NotFalse(cfg, "plugins", "enabled")

\* a registry that hands every hook the chain's input instead of the
\* previous hook's result
HookResult_FanOut(plugin, hook, v) == [v EXCEPT !.marks = << <<plugin.name, hook>> >>]

\* result = await plugin.hook(result)
HookResult(plugin, hook, v) == [v EXCEPT !.marks = Append(@, <<plugin.name, hook>>)]

Invocation(op, i, input) == [op |-> op, plugin |-> i, input |-> input]

Returned(fn, v) == [fn |-> fn, result |-> "returned", value |-> v]

Threw(fn, v) == [fn |-> fn, result |-> "threw", value |-> v]

StartCall(kind, at, chain, v) == [kind |-> kind, pc |-> at, chain |-> chain, i |-> 1, value |-> v]

\* the outcomes of the transport call: a 2xx response, another status, no response
Outcomes == {"ok", "status", "network"}

\* the transport call made with the value v, and how it ended
Transport(v, outcome) == << Invocation("fetch", 0, v), Invocation(outcome, 0, v) >>

\* generateHttpClient, lines 160-217: what makeRequest does with the outcome
makeRequest(cfg, outcome) ==
    IF ResultPattern(cfg)
    THEN Returned("makeRequest", IF outcome = "ok" THEN Pair(Value("response"), Null)
                                 ELSE Pair(Null, Value("error")))
    ELSE IF outcome = "ok" THEN Returned("makeRequest", Value("response"))
    ELSE Threw("makeRequest", Value("error"))

\* (error as Error).message
Message(err) == [kind |-> "message", marks |-> err.marks]

InitSdk ==
    /\ config \in SdkConfigs
    /\ schema = UsersSchema
    /\ nodeEnv = ""
    /\ rpc = "input"
    /\ resolved = Empty
    /\ fs = FsProject
    /\ fs0 = fs
    /\ pc = "idle"
    /\ outputDir = NoPath
    /\ error = ""
    /\ trace = <<>>
    /\ console = <<>>
    /\ out = NoCall
    /\ plugins = <<>>
    /\ store = InitialStore
    /\ call = Idle

sdkFrame == <<config, nodeEnv, rpc, resolved, schema, fs, fs0, pc, outputDir, error, console>>

\* PluginRegistry.register
Register ==
    /\ PluginsEnabled(config) /\ call = Idle /\ out = NoCall
    /\ Len(plugins) < MaxPlugins
    /\ \E p \in PluginPool : plugins' = Append(plugins, p)
    /\ UNCHANGED <<sdkFrame, trace, out, store, call>>

\* applyBeforeRequest, applyAfterResponse, applyOnError called on their own
Apply ==
    /\ PluginsEnabled(config) /\ call = Idle
    /\ \E hook \in HookKinds : call' = StartCall("apply", "chain", hook, Value("input"))
    /\ trace' = <<>> /\ out' = NoCall
    /\ UNCHANGED <<sdkFrame, plugins, store>>

\* a hook throws: the chain ends with the exception.  In the request
\* method only the after-response chain runs inside the try block, whose
\* catch block hands the exception to the on-error chain.
HookThrew ==
    IF call.kind = "request" /\ call.chain = "afterResponse"
    THEN /\ call' = StartCall("request", "chain", "onError", Value("hookError"))
         /\ UNCHANGED out
    ELSE /\ out' = Threw(IF call.kind = "apply" THEN call.chain ELSE "request",
                         Value("hookError"))
         /\ call' = Idle

\* one iteration of "for (const plugin of this.plugins)"
ChainStep ==
    /\ call.pc = "chain" /\ call.i <= Len(plugins)
    /\ LET plugin == plugins[call.i]
       IN  IF Has(plugin, call.chain)
           THEN /\ trace' = Append(trace, Invocation(call.chain, call.i, call.value))
                /\ IF plugin[call.chain] = "throws"
                   THEN HookThrew
                   ELSE /\ call' = [call EXCEPT !.i = @ + 1,
                                                !.value = HookResult(plugin, call.chain, @)]
                        /\ UNCHANGED out
           ELSE /\ call' = [call EXCEPT !.i = @ + 1]
                /\ UNCHANGED <<trace, out>>
    /\ UNCHANGED <<sdkFrame, plugins, store>>

\* "return result" of a chain, and what its caller does with it
ChainEnd ==
    /\ call.pc = "chain" /\ call.i > Len(plugins)
    /\ IF call.kind = "apply"
       THEN out' = Returned(call.chain, call.value) /\ call' = Idle
       ELSE IF call.chain = "beforeRequest"
       THEN call' = [call EXCEPT !.pc = "fetch"] /\ UNCHANGED out
       ELSE IF call.chain = "afterResponse"
       THEN out' = Returned("request", Pair(call.value, Null)) /\ call' = Idle
       ELSE out' = Returned("request", Pair(Null, call.value)) /\ call' = Idle
    /\ UNCHANGED <<sdkFrame, plugins, store, trace>>

\* the client's request method up to its first await
Request ==
    /\ PluginsEnabled(config) /\ call = Idle
    /\ call' = StartCall("request", "chain", "beforeRequest", Value("request"))
    /\ trace' = <<>> /\ out' = NoCall
    /\ UNCHANGED <<sdkFrame, plugins, store>>

\* the client's request method from its fetch on
RequestTransport ==
    /\ call.kind = "request" /\ call.pc = "fetch"
    /\ \E outcome \in Outcomes :
        /\ trace' = trace \o Transport(call.value, outcome)
        /\ IF ResultPattern(config)
           THEN /\ call' = IF outcome = "ok"
                           THEN StartCall("request", "chain", "afterResponse",
                                          Value("response"))
                           ELSE StartCall("request", "chain", "onError", Value("error"))
                /\ UNCHANGED out
           ELSE /\ out' = IF outcome = "ok" THEN Returned("request", Value("response"))
                          ELSE Threw("request", Value("error"))
                /\ call' = Idle
    /\ UNCHANGED <<sdkFrame, plugins, store>>

\* a function of the api module is called
ApiCall ==
    /\ call = Idle
    /\ call' = StartCall("api", "fetch", "", Value("request"))
    /\ trace' = <<>> /\ out' = NoCall
    /\ UNCHANGED <<sdkFrame, plugins, store>>

\* generateApiFiles, lines 105-120: the body of the function
ApiReturn ==
    /\ call.kind = "api" /\ call.pc = "fetch"
    /\ IF NotFalse(config, "api", "includeHttpClient")
       THEN \E outcome \in Outcomes :
                /\ trace' = trace \o Transport(call.value, outcome)
                /\ out' = [makeRequest(config, outcome) EXCEPT !.fn = "api"]
       ELSE out' = Threw("api", Value("error")) /\ UNCHANGED trace
    /\ call' = Idle
    /\ UNCHANGED <<sdkFrame, plugins, store>>

\* the fetch action of an endpoint store up to its await
Fetch ==
    /\ call = Idle
    /\ store' = [store EXCEPT !.loading = TRUE, !.error = Null]
    /\ call' = StartCall("fetch", "fetch", "", Value("request"))
    /\ trace' = << Invocation("set", 0, store.data) >> /\ out' = NoCall
    /\ UNCHANGED <<sdkFrame, plugins>>

\* set({ data, loading: false }) or set({ error: message, loading: false })
Settle(st, r) ==
    IF r.result = "returned" THEN [st EXCEPT !.data = r.value, !.loading = FALSE]
    ELSE [st EXCEPT !.error = Message(r.value), !.loading = FALSE]

\* the fetch action of an endpoint store from the api function's result on
FetchSettle ==
    /\ call.kind = "fetch" /\ call.pc = "fetch"
    /\ IF NotFalse(config, "api", "includeHttpClient")
       THEN \E outcome \in Outcomes :
                /\ trace' = trace \o Transport(call.value, outcome)
                /\ store' = Settle(store, makeRequest(config, outcome))
       ELSE store' = Settle(store, Threw("api", Value("error"))) /\ UNCHANGED trace
    /\ out' = Returned("fetch", Null)
    /\ call' = Idle
    /\ UNCHANGED <<sdkFrame, plugins>>

NextSdk ==
    \/ Register
    \/ Apply
    \/ ChainStep
    \/ ChainEnd
    \/ Request
    \/ RequestTransport
    \/ ApiCall
    \/ ApiReturn
    \/ Fetch
    \/ FetchSettle

SpecSdk == InitSdk /\ [][NextSdk]_vars

(***************************************************************************)
(* Specification of one endpoint store whose fetch action is called again  *)
(* while earlier calls are awaiting their request: call holds how many     *)
(* calls were started and which of them are in flight.                     *)
(***************************************************************************)
StoreConfigs == {Empty, [response |-> [pattern |-> "promise"]]}

InitStore ==
    /\ config \in StoreConfigs
    /\ schema = UsersSchema
    /\ nodeEnv = ""
    /\ rpc = "input"
    /\ resolved = Empty
    /\ fs = FsProject
    /\ fs0 = fs
    /\ pc = "idle"
    /\ outputDir = NoPath
    /\ error = ""
    /\ trace = <<>>
    /\ console = <<>>
    /\ out = NoCall
    /\ plugins = <<>>
    /\ store = InitialStore
    /\ call = [kind |-> "fetches", started |-> 0, inflight |-> {}]

\* fetch is called: set({ loading: true, error: null }), then the await
StartFetch ==
    /\ call.started < MaxFetches
    /\ store' = [store EXCEPT !.loading = TRUE, !.error = Null]
    /\ call' = [call EXCEPT !.started = @ + 1, !.inflight = @ \cup {call.started + 1}]
    /\ trace' = Append(trace, Invocation("fetch", call.started + 1, Value("request")))
    /\ UNCHANGED <<sdkFrame, plugins, out>>

\* the request of one of the calls in flight ends: the set of its try or
\* of its catch block
CompleteFetch ==
    /\ \E k \in call.inflight, outcome \in Outcomes :
           /\ store' = Settle(store, makeRequest(config, outcome))
           /\ call' = [call EXCEPT !.inflight = @ \ {k}]
           /\ trace' = Append(trace, Invocation(outcome, k, Value("request")))
    /\ UNCHANGED <<sdkFrame, plugins, out>>

NextStore ==
    \/ StartFetch
    \/ CompleteFetch

SpecStore == InitStore /\ [][NextStore]_vars

(***************************************************************************)
(* Specification of the generated SDK with plugins whose hooks may throw.  *)
(***************************************************************************)
\* a plugin with one hook, which throws
ThrowingPool == {[name |-> "t"] @@ [h \in {hook} |-> "throws"] : hook \in HookKinds}

RegisterThrowing ==
    /\ PluginsEnabled(config) /\ call = Idle /\ out = NoCall
    /\ Len(plugins) < MaxPlugins
    /\ \E p \in ThrowingPool : plugins' = Append(plugins, p)
    /\ UNCHANGED <<sdkFrame, trace, out, store, call>>

NextHooks ==
    \/ NextSdk
    \/ RegisterThrowing

SpecHooks == InitSdk /\ [][NextHooks]_vars

(***************************************************************************)
(* Properties of a generation run.                                         *)
(***************************************************************************)
\* what the run did so far
Did(op) == \E i \in DOMAIN trace : trace[i].op = op

DidAt(op, arg) == \E i \in DOMAIN trace : trace[i] = Event(op, arg)

Written == {trace[i].arg : i \in {j \in DOMAIN trace : trace[j].op = "write"}}

\* the output root of the run, known from its start
Root == ResolveOutputDir(config, fs0)

RootHadFiles == ExistsSync(fs0, Root) /\ ReaddirSync(fs0, Root) # {}

SchemaErrors == validateApiEndpoints(schema) \o validateTypes(schema)

Target(p, spec) == (IF spec.up THEN Parent(Parent(p)) ELSE Parent(p)) \o spec.segs

\* the specifier resolves to a written file: the module itself or its index
Resolves(p, spec) ==
    Target(p, spec) \in Written \/ Append(Target(p, spec), W("index")) \in Written

\* C2 (cross-reference closure): after a successful run on a valid schema
\* that wrote its files, every relative import or re-export of every written
\* file resolves to a file the same run wrote.
C2_Closure ==
    (pc = "done" /\ ~DryRun(config) /\ SchemaErrors = <<>>)
        => \A p \in Written : \A spec \in fs.files[p].imports : Resolves(p, spec)

C4_DryRunNoMutation ==
    DryRun(config)
        => /\ fs = fs0 /\ ~Did("mkdir") /\ ~Did("write") /\ ~Did("rm")
           /\ pc = "done"
                => /\ NotFalse(config, "api", "enabled") => DidAt("generate", << W("api") >>)
                   /\ NotFalse(config, "client", "enabled")
                          => DidAt("generate", << W("client") >>)
                   /\ DidAt("generate", << W("index") >>)

\* C5 (schema validation gate): when the schema fails endpoint or type
\* validation the run is rejected before any generator is invoked and before
\* any file is written.
C5_ValidationGate ==
    (pc \notin {"start", "validate", "fetch", "schema"} /\ SchemaErrors # <<>>)
        => /\ pc \in {"catch", "rejected"}
           /\ ~Did("generate") /\ ~Did("write")

\* C6 (missing credential): without config.apiKey the run never fetches the
\* schema, never invokes a generator, never touches the filesystem, and ends
\* rejected.
C6_MissingCredential ==
    ~Truthy(config, "apiKey")
        => /\ pc \in {"start", "validate", "catch", "rejected"}
           /\ ~Did("fetchSchema") /\ ~Did("generate")
           /\ ~Did("mkdir") /\ ~Did("write") /\ ~Did("rm")
           /\ fs = fs0

\* a run without the credential, on a project holding earlier output, was
\* rejected for the missing key
C6_Witness ==
    /\ pc = "rejected" /\ error = "API key is required"
    /\ ~Has(config, "apiKey")
    /\ fs0 = FsGenerated /\ fs = fs0
    /\ trace = <<>>

(***************************************************************************)
(* Properties of the resolver.                                             *)
(***************************************************************************)
\* U.environments[E], for the user configuration and the environment drawn
EnvConfig == Sub(Sub(config, "environments"), IF nodeEnv = "" THEN "prod" ELSE nodeEnv)

TopLevelScalars ==
    {"apiKey", "language", "stateManagement", "httpClient", "outputDir",
     "projectType", "apiVersion"}

\* defaults overridden key by key by the user's values, written pointwise
KeyWise(merged, defaults, user) ==
    /\ DOMAIN merged = DOMAIN defaults \cup DOMAIN user
    /\ \A k \in DOMAIN merged : merged[k] = IF k \in DOMAIN user THEN user[k] ELSE defaults[k]

\* C7 (environment override precedence): each field the environment entry
\* of the user configuration sets has the environment's value in the
\* resolved configuration.
C7_EnvironmentWins ==
    rpc = "resolved"
        => \A f \in DOMAIN EnvConfig : Has(resolved, f) /\ resolved[f] = EnvConfig[f]

PopulatedKeys(g) ==
    CASE g = "naming" -> {"clientPrefix", "storePrefix", "hookPrefix"}
      [] g = "auth" -> {"enabled"}
      [] g = "http" -> {"timeout", "headers"}
      [] OTHER -> DOMAIN GroupDefaults(g)

\* C9 (fully-populated resolution): every configuration group of the
\* resolved configuration is present with each of its default keys, and
\* auth.enabled is true unless the user sets it.
C9_FullyPopulated ==
    rpc = "resolved"
        => /\ \A g \in (MergedGroups \ {"versioning"}) \cup {"naming", "auth", "http"} :
                  Has(resolved, g) /\ PopulatedKeys(g) \subseteq DOMAIN resolved[g]
           /\ ~Has(Sub(config, "auth"), "enabled")
                  => Has(resolved, "auth") /\ resolved["auth"] = [enabled |-> TRUE]

\* C10 (HTTP header merge): the resolved http.headers are the internal
\* headers overridden key by key by the user's http.headers, and
\* http.timeout is the default unless the user sets it.
C10_HeaderMerge ==
    rpc = "resolved"
        => /\ KeyWise(resolved["http"]["headers"], InternalHeaders,
                      Sub(Sub(config, "http"), "headers"))
           /\ resolved["http"]["timeout"] =
                  IF Has(Sub(config, "http"), "timeout") THEN config["http"]["timeout"]
                  ELSE InternalTimeout

(***************************************************************************)
(* Properties of the generator functions.                                  *)
(***************************************************************************)
AllowList == Sub(config, "services")["include"]

HasAllowList == Has(Sub(config, "services"), "include")

Resources == {ResourceOf(schema.endpoints[i]) : i \in DOMAIN schema.endpoints}

\* the resources the call has to generate
Selected == IF HasAllowList THEN Elems(AllowList) \cap Resources ELSE Resources

Absent == IF HasAllowList THEN Elems(AllowList) \ Resources ELSE {}

Grouped == NotFalse(config, "api", "groupByResource")

FileNamed(files, name) == files[CHOOSE i \in DOMAIN files : files[i].name = name]

\* C11 (service selection): grouped generateApiFiles returns one resource
\* file for each selected resource of the schema and an index that
\* re-exports exactly those; it warns, naming the absent names and the
\* available resources, exactly when a name of the allow-list is absent.
C11_ServiceSelection ==
    (out.fn = "generateApiFiles" /\ Grouped)
        => /\ Names(out.files) = {W(r) : r \in Selected} \cup {W("index")}
           /\ Len(out.files) = Cardinality(Selected) + 1
           /\ FileNamed(out.files, W("index")).content.imports = {Here(W(r)) : r \in Selected}
           /\ (console # <<>>) <=> (Absent # {})
           /\ console # <<>>
                  => /\ Elems(console[1].services) = Absent
                     /\ Elems(console[2].services) = Resources

(***************************************************************************)
(* Properties of the generated SDK.                                        *)
(***************************************************************************)
\* how the transport call of the current call ended
RequestOk == \E i \in DOMAIN trace : trace[i].op = "ok"

RequestFailed == \E i \in DOMAIN trace : trace[i].op \in {"status", "network"}

HttpClientIncluded == NotFalse(config, "api", "includeHttpClient")

\* C12 (response-pattern consistency): each consumer of the HTTP helper
\* follows the configured pattern.  Under 'promise' an api function and the
\* client's request throw on a failed request and return the bare payload
\* on success; under 'result' they return a { data, error } pair and never
\* throw; a store never keeps the helper's pair as its payload and records
\* a failed request as its error.
C12_PatternConsistency ==
    /\ (out.fn \in {"api", "request"} /\ HttpClientIncluded)
           => IF ResultPattern(config)
              THEN /\ out.result = "returned" /\ out.value.kind = "pair"
                   /\ RequestFailed <=> out.value.error # Null
              ELSE /\ RequestOk => out.result = "returned" /\ out.value.kind = "response"
                   /\ RequestFailed => out.result = "threw"
    /\ (out.fn = "fetch" /\ HttpClientIncluded)
           => /\ store.data.kind # "pair"
              /\ RequestFailed => store.error # Null

\* C13 (store request lifecycle): while a fetch is in progress loading is
\* true and error is null; when the request has completed loading is false
\* and either it succeeded, data is the response payload and error is null,
\* or it failed, error is a message and data is what it was before.
C13_StoreLifecycle ==
    /\ call.kind = "fetch" => store.loading /\ store.error = Null
    /\ (out.fn = "fetch" /\ (RequestOk \/ RequestFailed))
           => /\ ~store.loading
              /\ \/ RequestOk /\ store.data = Value("response") /\ store.error = Null
                 \/ RequestFailed /\ store.error # Null /\ store.data = trace[1].input

\* the marks the hooks of kind hook leave when folded over the first n
\* plugins in registration order
RECURSIVE FoldMarks(_, _)
FoldMarks(hook, n) ==
    IF n = 0 THEN <<>>
    ELSE IF hook \in DOMAIN plugins[n]
    THEN Append(FoldMarks(hook, n - 1), <<plugins[n].name, hook>>)
    ELSE FoldMarks(hook, n - 1)

\* C14 (plugin hook chain): an application of a hook chain on its own
\* returns the left-to-right fold of the registered plugins' hooks of that
\* kind over the input; plugins without the hook are skipped; each hook is
\* invoked once, in registration order, on the result of the previous one;
\* with no plugin the input is returned.
C14_HookChain ==
    out.fn \in HookKinds
        => /\ out.result = "returned"
           /\ out.value = [Value("input") EXCEPT !.marks = FoldMarks(out.fn, Len(plugins))]
           /\ Len(trace) = Cardinality({i \in DOMAIN plugins : out.fn \in DOMAIN plugins[i]})
           /\ \A k \in DOMAIN trace :
                  /\ trace[k].op = out.fn
                  /\ out.fn \in DOMAIN plugins[trace[k].plugin]
                  /\ trace[k].input.marks = FoldMarks(out.fn, trace[k].plugin - 1)
                  /\ \A j \in 1..(k - 1) : trace[j].plugin < trace[k].plugin
           /\ plugins = <<>> => out.value = Value("input")

\* two plugins with an afterResponse hook were registered, "b" first; the
\* chain returned the input marked by "b", then by "a"
C14_Witness ==
    /\ out = Returned("afterResponse",
                      [Value("input") EXCEPT !.marks = << <<"b", "afterResponse">>,
                                                          <<"a", "afterResponse">> >>])
    /\ Len(plugins) = 2 /\ plugins[1].name = "b" /\ plugins[2].name = "a"
    /\ "beforeRequest" \notin DOMAIN plugins[1]
    /\ Len(trace) = 2

\* the plugins that have the hook
With(hook) == {i \in DOMAIN plugins : hook \in DOMAIN plugins[i]}

\* the hook chain that has to run after the transport call
ChainAfter == IF RequestOk THEN "afterResponse" ELSE "onError"

\* C15 (client request routing): a call of the client's request method runs
\* the before-request chain to its end, then makes the transport call with
\* the value the chain returned, then runs the after-response chain on
\* success and the on-error chain on failure, under both response patterns.
C15_RequestRouting ==
    out.fn = "request"
        => LET f == CHOOSE i \in DOMAIN trace : trace[i].op = "fetch"
           IN  /\ f - 1 = Cardinality(With("beforeRequest"))
               /\ \A i \in 1..(f - 1) : trace[i].op = "beforeRequest"
               /\ trace[f].input.marks = FoldMarks("beforeRequest", Len(plugins))
               /\ Len(trace) - (f + 1) = Cardinality(With(ChainAfter))
               /\ \A i \in (f + 2)..Len(trace) : trace[i].op = ChainAfter

\* C16 (plugins cover the API surface): a request issued through a function
\* of client.api runs the before-request hook of every plugin registered on
\* the client, and the after-response or on-error hook once it has ended.
C16_ApiThroughPlugins ==
    (out.fn = "api" /\ PluginsEnabled(config) /\ (RequestOk \/ RequestFailed))
        => /\ \A i \in With("beforeRequest") :
                  \E k \in DOMAIN trace : trace[k].op = "beforeRequest" /\ trace[k].plugin = i
           /\ \A i \in With(ChainAfter) :
                  \E k \in DOMAIN trace : trace[k].op = ChainAfter /\ trace[k].plugin = i

\* a sequence with an element at two places
Dups(s) == \E i, j \in DOMAIN s : i < j /\ s[i] = s[j]

\* C17 (method-name collisions are surfaced): for a schema of distinct
\* endpoints that passes validation, a generator call either reports an
\* error or leaves no API file with two exports of one name and no endpoint
\* store file written twice.
C17_CollisionsSurfaced ==
    (SchemaErrors = <<>> /\ ~Dups(schema.endpoints))
        => /\ out.fn = "generateApiFiles"
                => \/ out.result = "threw"
                   \/ \A k \in DOMAIN out.exports : ~Dups(out.exports[k].names)
           /\ out.fn = "generateStoreFiles"
                => \/ out.result = "threw"
                   \/ ~Dups(out.written)

\* the verb of an endpoint, compared without regard to case
Verb(endpoint) ==
    LET m == endpoint.method
    IN  CASE m \in {"GET", "get", "Get"} -> "GET"
          [] m \in {"POST", "post", "Post"} -> "POST"
          [] m \in {"PUT", "put", "Put"} -> "PUT"
          [] m \in {"PATCH", "patch", "Patch"} -> "PATCH"
          [] m \in {"DELETE", "delete", "Delete"} -> "DELETE"
          [] OTHER -> m

\* the first path segment that is not a {parameter}
Noun(endpoint) ==
    LET Nouns == {i \in DOMAIN endpoint.path :
                     endpoint.path[i] # "" /\ ~IsPathParam(endpoint.path[i])}
    IN  IF Nouns = {} THEN "operation"
        ELSE endpoint.path[CHOOSE i \in Nouns : \A j \in Nouns : i <= j]

RootIndex == fs.files[Append(outputDir, W("index"))]

ReExports(group) == Here(W(group)) \in RootIndex.imports

\* C19 (root index and stores): after a run that wrote its output, the root
\* index re-exports types, api and client; it re-exports stores exactly
\* when the resolved state management is zustand or redux; the stores
\* directory with its index file exists exactly when the root index
\* re-exports it; with state management 'none' there is no stores directory.
C19_RootIndexAndStores ==
    (pc = "done" /\ ~DryRun(config))
        => /\ ReExports("types") /\ ReExports("api") /\ ReExports("client")
           /\ ReExports("stores") <=> resolved["stateManagement"] \in {"zustand", "redux"}
           /\ ReExports("stores")
                <=> /\ ExistsSync(fs, GroupDir("stores"))
                    /\ ExistsSync(fs, Append(GroupDir("stores"), W("index")))
           /\ resolved["stateManagement"] = "none" => ~ExistsSync(fs, GroupDir("stores"))

\* generate.ts line 62: const optimizedConfig = mergedConfig
optimizedConfig == resolved

\* C20 (project-type tuning): for a user config that declares a project
\* type of next, qwik, svelte or angular and sets no httpClient, the
\* configuration used for generation has httpClient 'fetch' (react, vite,
\* vue: 'axios'); an httpClient or stateManagement the user set is kept.
C20_ProjectTypeTuning ==
    optimizedConfig # Empty
        => /\ (Has(config, "projectType") /\ ~Has(config, "httpClient"))
                => /\ config["projectType"] \in {"next", "qwik", "svelte", "angular"}
                        => optimizedConfig["httpClient"] = "fetch"
                   /\ config["projectType"] \in {"react", "vite", "vue"}
                        => optimizedConfig["httpClient"] = "axios"
           /\ \A k \in {"httpClient", "stateManagement"} :
                  Has(config, k) => optimizedConfig[k] = config[k]

\* C21 (types generator): for a schema with n declared types,
\* generateTypesFiles returns n type files and the index file, each declared
\* type's interface is in a file with its fields in declaration order, and
\* the index re-exports each type file exactly once.
C21_TypesFiles ==
    out.fn = "generateTypesFiles"
        => /\ Len(out.files) = Len(schema.types) + 1
           /\ \E k \in DOMAIN out.files : out.files[k].name = W("index")
           /\ \A i \in DOMAIN schema.types :
                  \E k \in DOMAIN out.interfaces :
                      /\ out.interfaces[k].interface = schema.types[i].name
                      /\ out.interfaces[k].fields = schema.types[i].fields
                      /\ out.interfaces[k].name # W("index")
                      /\ \E f \in DOMAIN out.files : out.files[f].name = out.interfaces[k].name
           /\ \A k \in DOMAIN out.interfaces :
                  Cardinality({e \in DOMAIN out.exports :
                                  out.exports[e] = out.interfaces[k].name}) = 1

\* the place of a group in the dependency order
Rank(group) ==
    CASE group = "types" -> 1
      [] group = "api" -> 2
      [] group = "client" -> 3
      [] group = "stores" -> 4
      [] group = "index" -> 5

\* the generator calls and the file writes of the run, and the group of each
Steps == {i \in DOMAIN trace : trace[i].op \in {"generate", "write"}}

Writes == {i \in DOMAIN trace : trace[i].op = "write"}

GroupOf(i) ==
    IF trace[i].op = "generate" THEN trace[i].arg[1][1]
    ELSE IF Len(trace[i].arg) = Len(outputDir) + 1 THEN "index"
    ELSE trace[i].arg[Len(outputDir) + 1][1]

\* C22 (generation order): the generators are invoked and their files
\* written in the order types, api, client, stores, root index: no step of a
\* group comes after a step of a later group, every file is written after
\* its generator was invoked, and after a run that wrote its output the
\* root index file is the last file written.
C22_GenerationOrder ==
    /\ \A i, j \in Steps : i < j => Rank(GroupOf(i)) <= Rank(GroupOf(j))
    /\ \A i \in Writes :
           \E j \in Steps : j < i /\ trace[j].op = "generate" /\ GroupOf(j) = GroupOf(i)
    /\ (pc = "done" /\ ~DryRun(config))
           => /\ Writes # {}
              /\ \A i \in Writes :
                     (\A j \in Writes : j <= i) => trace[i].arg = Append(outputDir, W("index"))

\* a finished run that wrote files of all four groups and the root index
C22_Witness ==
    /\ pc = "done"
    /\ \A g \in {"types", "api", "client", "stores", "index"} :
           \E i \in Writes : GroupOf(i) = g

\* the files below a directory, with their contents
FilesUnder(f, dir) == [p \in {q \in DOMAIN f.files : IsPrefix(dir, q)} |-> f.files[p]]

\* the second run has ended successfully
SecondRunDone == pc = "done" /\ out.fn = "generateCode"

\* C23 (idempotence): a second run with the same schema and the same user
\* configuration, overwrite enabled, leaves the same output files with the
\* same contents as the first run left.
C23_Idempotence ==
    (SecondRunDone /\ out.config = config /\ out.schema = schema
     /\ Overwrite(config) /\ ~DryRun(config))
        => /\ outputDir = out.outputDir
           /\ FilesUnder(fs, out.outputDir) = FilesUnder(out.fs, out.outputDir)

\* the files this run wrote
WrittenNow == {trace[i].arg : i \in Writes}

\* C28 (no stale output): after a successful second run the output root
\* holds no file that the earlier run wrote and this run did not.
C28_NoStaleOutput ==
    (SecondRunDone /\ ~DryRun(config))
        => \A p \in out.written :
               (IsPrefix(outputDir, p) /\ p \in DOMAIN fs.files) => p \in WrittenNow

\* C30 (stable default output root): with no outputDir configured, the
\* second run resolves to the output root of the first.
C30_StableDefaultRoot ==
    (out.fn = "generateCode" /\ outputDir # NoPath
     /\ ~Has(out.config, "outputDir") /\ ~Has(config, "outputDir"))
        => outputDir = out.outputDir

\* the errors of a run that aborts before its first write
EarlyAborts ==
    {"API key is required", "Invalid schema: No endpoints found",
     "Output directory is not empty", "Output directory is not writable"}

\* everything the project held before the run is still there, unchanged
Preserved ==
    /\ \A d \in fs0.dirs : d \in fs.dirs
    /\ \A p \in DOMAIN fs0.files : p \in DOMAIN fs.files /\ fs.files[p] = fs0.files[p]

\* C24 (abort leaves the filesystem untouched): when a run has been rejected
\* for a missing credential, a schema without endpoints, a non-empty output
\* root with overwrite off or an unwritable output location, every file and
\* directory that existed before the run is as it was.
C24_AbortUntouched ==
    (pc = "rejected" /\ error \in EarlyAborts) => Preserved

\* the places of the invocations of a lifecycle hook in the run
HookCalls(h) == {i \in DOMAIN trace : trace[i] = Event("hook", << W(h) >>)}

AllHooksSet == \A h \in {"beforeGenerate", "afterGenerate", "onError"} : HookOf(config, h) # ""

\* C29 (lifecycle hooks): in a run with the three hooks configured,
\* beforeGenerate is invoked before any other step, and when the run has
\* ended exactly one of afterGenerate and onError has been invoked:
\* afterGenerate exactly when the run succeeded, the output being kept,
\* onError exactly when it failed, once and after the cleanup.
C29_LifecycleHooks ==
    AllHooksSet
        => /\ trace # <<>> => trace[1] = Event("hook", << W("beforeGenerate") >>)
           /\ Cardinality(HookCalls("beforeGenerate")) <= 1
           /\ pc \in {"done", "rejected"}
                => /\ (HookCalls("afterGenerate") # {}) # (HookCalls("onError") # {})
                   /\ HookCalls("afterGenerate") # {} <=> pc = "done"
                   /\ HookCalls("onError") # {} <=> pc = "rejected"
                   /\ \A i \in HookCalls("onError") : i = Len(trace)
                   /\ (HookCalls("afterGenerate") # {} /\ ~DryRun(config))
                        => \A p \in WrittenNow : p \in DOMAIN fs.files

\* the files this run wrote, each with its group, name and content
WrittenFiles ==
    {<<IF Len(p) = Len(outputDir) + 1 THEN "index" ELSE p[Len(outputDir) + 1][1],
       p[Len(p)], fs.files[p]>> : p \in WrittenNow}

\* C25 (generators see the resolved configuration): the files a successful
\* run writes for the user's configuration are the files a run writes for
\* that configuration with every omitted field set to its default.
C25_ResolvedConfigUsed ==
    (pc = "done" /\ ~DryRun(config)) => WrittenFiles = RunFiles(schema, resolved, resolved)

\* C26 (result pattern never rejects): under the 'result' pattern a call of
\* the client's request method returns a { data, error } pair whatever the
\* registered hooks do; after a failed request the error is not null, and
\* data and error are never both set.
C26_ResultNeverRejects ==
    (ResultPattern(config) /\ out.fn = "request")
        => /\ out.result = "returned"
           /\ out.value.kind = "pair"
           /\ RequestFailed => out.value.error # Null
           /\ out.value.data = Null \/ out.value.error = Null

\* how the request of the fetch call started last ended
LastOutcome ==
    LET i == CHOOSE j \in DOMAIN trace :
                 trace[j].plugin = call.started /\ trace[j].op \in Outcomes
    IN  trace[i].op

\* C27 (overlapping store fetches): loading is true while a fetch is in
\* flight, and when all have completed the store shows the outcome of the
\* fetch started last: a payload and no error when it succeeded, an error
\* when it failed.
C27_OverlappingFetches ==
    call.kind = "fetches"
        => /\ call.inflight # {} => store.loading
           /\ (call.inflight = {} /\ call.started > 0)
                => /\ ~store.loading
                   /\ LastOutcome = "ok" => store.error = Null /\ store.data # Null
                   /\ LastOutcome # "ok" => store.error # Null

====
